---------------------------- MODULE Spec2Model ----------------------------
(***************************************************************************)
(* Vietlott OCR crawlers: scripts/chatgpt_vision_ocr/chatgpt_ocr.py (Power *)
(* 6/55) and scripts/chatgpt_vision_ocr/mega_6_45.py (Mega 6/45).          *)
(*                                                                         *)
(* A text is a sequence of one-character strings, so that the string       *)
(* operations of the parsers (replace, split, re.search, int) are computed *)
(* as the code computes them.  File names and ISO dates are TLA+ strings   *)
(* built by concatenation, the way the f-strings of the code build them.   *)
(***************************************************************************)
EXTENDS Integers, Sequences, FiniteSets, TLC

\* ---------------------------------------------------------------- bounds

\* Longest list of links (Mega) or of images (Power) one run works through;
\* draw numbers range over 1..MaxLinks.
MaxLinks == 2

\* Longest run of extra number tokens appended to a generated reply.
MaxTail == 1

\* ------------------------------------------------------- program constants

\* chatgpt_ocr.py: `1 <= num <= 55`
POWER_MAX == 55

\* mega_6_45.py: `1 <= num <= 45`
MEGA_MAX == 45

\* both parsers: `if len(numbers) == 6: break`, and `len(numbers) == 6`
NUMBERS_WANTED == 6

\* f"{draw_number:05d}"
ID_WIDTH == 5

\* datetime(year, month, day, 18, 0, 0)
DRAW_HOUR == 18

\* Python's datetime.MINYEAR .. datetime.MAXYEAR
MINYEAR == 1

MAXYEAR == 9999

\* Python's None, and an Optional value: <<>> or <<value>>
None == <<>>

Some(v) == <<v>>

\* ------------------------------------------------------------ characters

Digits == <<"0", "1", "2", "3", "4", "5", "6", "7", "8", "9">>

\* \d of the regular expressions
IsDigit(c) == c \in {"0", "1", "2", "3", "4", "5", "6", "7", "8", "9"}

DigitVal(c) == (CHOOSE k \in 1..10 : Digits[k] = c) - 1

\* \s of the regular expressions, and the separators of str.split()
IsSpace(c) == c \in {" ", "\n", "\t"}

\* int(s) for a string of digits
RECURSIVE IntOf(_)
IntOf(s) ==
    IF s = <<>> THEN 0
    ELSE 10 * IntOf(SubSeq(s, 1, Len(s) - 1)) + DigitVal(s[Len(s)])

\* str.replace(old, new) for one-character `old` and `new`
ReplaceChar(text, old, new) ==
    [k \in 1..Len(text) |-> IF text[k] = old THEN new ELSE text[k]]

\* str.replace('  ', ' '): non-overlapping occurrences, left to right
RECURSIVE ReplaceDoubleSpace(_)
ReplaceDoubleSpace(text) ==
    IF Len(text) < 2 THEN text
    ELSE IF text[1] = " " /\ text[2] = " "
         THEN <<" ">> \o ReplaceDoubleSpace(SubSeq(text, 3, Len(text)))
         ELSE <<text[1]>> \o ReplaceDoubleSpace(Tail(text))

\* str.split(): the maximal runs of non-whitespace characters, in order
RECURSIVE SplitFrom(_, _)
SplitFrom(text, cur) ==
    IF text = <<>> THEN (IF cur = <<>> THEN <<>> ELSE <<cur>>)
    ELSE IF IsSpace(Head(text))
         THEN (IF cur = <<>> THEN <<>> ELSE <<cur>>) \o SplitFrom(Tail(text), <<>>)
         ELSE SplitFrom(Tail(text), Append(cur, Head(text)))

Split(text) == SplitFrom(text, <<>>)

\* the longest prefix of digits
RECURSIVE DigitPrefix(_)
DigitPrefix(s) ==
    IF s = <<>> \/ ~IsDigit(Head(s)) THEN <<>>
    ELSE <<Head(s)>> \o DigitPrefix(Tail(s))

\* re.search(r'\d+', part): the first maximal run of digits; <<>> when
\* there is no match (a match is never empty)
RECURSIVE SearchDigits(_)
SearchDigits(part) ==
    IF part = <<>> THEN <<>>
    ELSE IF IsDigit(Head(part)) THEN DigitPrefix(part)
         ELSE SearchDigits(Tail(part))

\* list.sort() on integers: insertion into an ascending list
RECURSIVE Insert(_, _)
Insert(x, s) ==
    IF s = <<>> THEN <<x>>
    ELSE IF x <= Head(s) THEN <<x>> \o s
         ELSE <<Head(s)>> \o Insert(x, Tail(s))

RECURSIVE SortAsc(_)
SortAsc(s) == IF s = <<>> THEN <<>> ELSE Insert(Head(s), SortAsc(Tail(s)))

Range(s) == {s[k] : k \in 1..Len(s)}


\* ------------------------------------------------------------- the games

Games == {"power", "mega"}

\* the upper end of `1 <= num <= 55` / `1 <= num <= 45`
\* fault model: the Power bound used for both games
MaxNumberOfPower(g) == POWER_MAX

MaxNumber(g) == IF g = "power" THEN POWER_MAX ELSE MEGA_MAX

\* --------------------------------------------------------------- parsing

\* the loop of parse_numbers_from_response over the parts, `numbers` being
\* the list collected so far
\* fault model: the loop without the `num not in numbers` test
RECURSIVE CollectKeepingDuplicates(_, _, _)
CollectKeepingDuplicates(g, parts, numbers) ==
    IF parts = <<>> THEN numbers
    ELSE LET match == SearchDigits(Head(parts))
             num   == IntOf(match)
         IN IF match /= <<>> /\ 1 <= num /\ num <= (IF g = "power" THEN POWER_MAX ELSE MEGA_MAX)
            THEN IF Len(numbers) + 1 = NUMBERS_WANTED
                 THEN Append(numbers, num)
                 ELSE CollectKeepingDuplicates(g, Tail(parts), Append(numbers, num))
            ELSE CollectKeepingDuplicates(g, Tail(parts), numbers)

RECURSIVE CollectNumbers(_, _, _)
CollectNumbers(g, parts, numbers) ==
    IF parts = <<>> THEN numbers
    ELSE LET match == SearchDigits(Head(parts))
             num   == IntOf(match)
         IN IF match /= <<>> /\ 1 <= num /\ num <= MaxNumber(g)
               /\ num \notin Range(numbers)
            THEN IF Len(numbers) + 1 = NUMBERS_WANTED
                 THEN Append(numbers, num)
                 ELSE CollectNumbers(g, Tail(parts), Append(numbers, num))
            ELSE CollectNumbers(g, Tail(parts), numbers)

\* fault model: the normalisation without .replace(',', ' ')
NormaliseDashesOnly(text) == ReplaceDoubleSpace(ReplaceChar(text, "-", " "))

\* text.replace('-', ' ').replace(',', ' ').replace('  ', ' ')
Normalise(text) ==
    ReplaceDoubleSpace(ReplaceChar(ReplaceChar(text, "-", " "), ",", " "))

parse_numbers_from_response(g, text) ==
    SortAsc(CollectNumbers(g, Split(Normalise(text)), <<>>))

\* whether r'Date:\s*(\d{2})/(\d{2})/(\d{4})' matches at position p; the
\* result is the position of the first digit, 0 when there is no match
RECURSIVE SkipSpaces(_, _)
SkipSpaces(text, p) ==
    IF p <= Len(text) /\ IsSpace(text[p]) THEN SkipSpaces(text, p + 1) ELSE p

DateMatchAt(text, p) ==
    IF p + 4 <= Len(text) /\ SubSeq(text, p, p + 4) = <<"D", "a", "t", "e", ":">>
    THEN LET q == SkipSpaces(text, p + 5)
         IN IF /\ q + 9 <= Len(text)
               /\ \A k \in {0, 1, 3, 4, 6, 7, 8, 9} : IsDigit(text[q + k])
               /\ text[q + 2] = "/"
               /\ text[q + 5] = "/"
            THEN q
            ELSE 0
    ELSE 0

\* re.search: the leftmost match
RECURSIVE DateSearchFrom(_, _)
DateSearchFrom(text, p) ==
    IF p > Len(text) THEN 0
    ELSE IF DateMatchAt(text, p) /= 0 THEN DateMatchAt(text, p)
         ELSE DateSearchFrom(text, p + 1)

IsLeap(year) == (year % 4 = 0 /\ year % 100 /= 0) \/ year % 400 = 0

DaysInMonth(year, month) ==
    IF month = 2 THEN (IF IsLeap(year) THEN 29 ELSE 28)
    ELSE IF month \in {4, 6, 9, 11} THEN 30 ELSE 31

\* whether datetime(year, month, day, ...) accepts its arguments; it raises
\* ValueError otherwise
DatetimeAccepts(year, month, day) ==
    /\ MINYEAR <= year /\ year <= MAXYEAR
    /\ 1 <= month /\ month <= 12
    /\ 1 <= day /\ day <= DaysInMonth(year, month)

datetime(year, month, day, hour, minute, second) ==
    [year |-> year, month |-> month, day |-> day,
     hour |-> hour, minute |-> minute, second |-> second]

\* fault model: the groups read as month, day, year
parse_date_month_first(text) ==
    LET q == DateSearchFrom(text, 1)
    IN IF q = 0 THEN [raised |-> FALSE, value |-> None]
       ELSE LET month == IntOf(SubSeq(text, q, q + 1))
                day   == IntOf(SubSeq(text, q + 3, q + 4))
                year  == IntOf(SubSeq(text, q + 6, q + 9))
            IN IF DatetimeAccepts(year, month, day)
               THEN [raised |-> FALSE,
                     value |-> Some(datetime(year, month, day, DRAW_HOUR, 0, 0))]
               ELSE [raised |-> TRUE, value |-> None]

\* parse_date_from_response: [raised, value]; `raised` is the ValueError of
\* datetime(), `value` is None or Some(datetime)
parse_date_from_response(text) ==
    LET q == DateSearchFrom(text, 1)
    IN IF q = 0 THEN [raised |-> FALSE, value |-> None]
       ELSE LET day   == IntOf(SubSeq(text, q, q + 1))
                month == IntOf(SubSeq(text, q + 3, q + 4))
                year  == IntOf(SubSeq(text, q + 6, q + 9))
            IN IF DatetimeAccepts(year, month, day)
               THEN [raised |-> FALSE,
                     value |-> Some(datetime(year, month, day, DRAW_HOUR, 0, 0))]
               ELSE [raised |-> TRUE, value |-> None]

\* ------------------------------------------------------------ formatting

\* str(n) for n >= 0
RECURSIVE StrOf(_)
StrOf(n) ==
    IF n < 10 THEN <<Digits[n + 1]>>
    ELSE StrOf(n \div 10) \o <<Digits[(n % 10) + 1]>>

RECURSIVE Zeros(_)
Zeros(k) == IF k <= 0 THEN <<>> ELSE <<"0">> \o Zeros(k - 1)

\* format(n, "0<width>d") for n >= 0: at least `width` characters
ZeroPad(n, width) == Zeros(width - Len(StrOf(n))) \o StrOf(n)

\* fault model: the draw number without padding
Unpadded(n) == StrOf(n)

\* f"{draw_number:05d}"
Format05d(n) == ZeroPad(n, ID_WIDTH)

\* datetime.isoformat() of a datetime without microseconds
isoformat(dt) ==
    ZeroPad(dt.year, 4) \o <<"-">> \o ZeroPad(dt.month, 2) \o <<"-">>
    \o ZeroPad(dt.day, 2) \o <<"T">> \o ZeroPad(dt.hour, 2) \o <<":">>
    \o ZeroPad(dt.minute, 2) \o <<":">> \o ZeroPad(dt.second, 2)

\* ------------------------------------------------------------ file names

\* a path inside one directory: Path.stem and Path.suffix
Path(stem, suffix) == [stem |-> stem, suffix |-> suffix]

\* "power" / "mega" of f"power_{...}" / f"mega_{...}"
GamePrefix(g) ==
    IF g = "power" THEN <<"p", "o", "w", "e", "r">> ELSE <<"m", "e", "g", "a">>

\* "POWER_6_55" / "MEGA_6_45"
GameType(g) == IF g = "power" THEN "POWER_6_55" ELSE "MEGA_6_45"

\* draw_id = f"power_{draw_number:05d}" / f"mega_{draw_number:05d}"
DrawId(g, n) == GamePrefix(g) \o <<"_">> \o Format05d(n)

\* filename = f"mega_{draw_number:05d}.json" under OUTPUT_DIR
RecordPath(g, n) == Path(GamePrefix(g) \o <<"_">> \o Format05d(n), ".json")

\* f"draw_{draw_number:05d}"
DrawStem(n) == <<"d", "r", "a", "w", "_">> \o Format05d(n)

\* os.path.join(PDF_DIR, f"draw_{draw_number:05d}.pdf")
PdfPath(n) == Path(DrawStem(n), ".pdf")

\* image_path = f"{image_base}.png"
ImagePath(n) == Path(DrawStem(n), ".png")

IsPrefix(p, s) == Len(p) <= Len(s) /\ SubSeq(s, 1, Len(p)) = p

\* fault model: the scan that finds nothing
NoExistingDraws(g, dir) == {}

\* get_existing_draws: the stems of OUTPUT_DIR's "power_*.json" / "mega_*.json"
get_existing_draws(g, dir) ==
    {f.stem : f \in {h \in DOMAIN dir :
                        /\ h.suffix = ".json"
                        /\ IsPrefix(GamePrefix(g) \o <<"_">>, h.stem)}}

\* str.split("_")[1]: the text between the first and the second "_"
RECURSIVE UpTo(_, _)
UpTo(s, c) ==
    IF s = <<>> \/ Head(s) = c THEN <<>> ELSE <<Head(s)>> \o UpTo(Tail(s), c)

SecondField(s, c) ==
    LET first == UpTo(s, c)
    IN UpTo(SubSeq(s, Len(first) + 2, Len(s)), c)

\* the record save_draw dumps
DrawRecord(g, n, nums, dt) ==
    [id          |-> GamePrefix(g) \o <<"_">> \o Format05d(n),
     game_type   |-> GameType(g),
     draw_number |-> n,
     numbers     |-> nums,
     draw_date   |-> isoformat(dt) \o <<"Z">>]

\* open(filepath, 'w') + json.dump: the file is created or overwritten
WriteFile(dir, path, content) ==
    [f \in DOMAIN dir \cup {path} |-> IF f = path THEN content ELSE dir[f]]

\* save_draw(draw_number, numbers, draw_date) on OUTPUT_DIR
save_draw(g, dir, n, nums, dt) == WriteFile(dir, RecordPath(g, n), DrawRecord(g, n, nums, dt))

\* ---------------------------------------------------------- model replies

TxtDate == <<"D", "a", "t", "e", ":">>

TxtNumbers == <<"N", "u", "m", "b", "e", "r", "s", ":">>

\* "Date: DD/MM/YYYY"
DateText(d, m, y) ==
    TxtDate \o <<" ">> \o ZeroPad(d, 2) \o <<"/">> \o ZeroPad(m, 2) \o <<"/">>
    \o ZeroPad(y, 4)

\* the values written with two digits and joined by `sep`
RECURSIVE Join(_, _)
Join(vals, sep) ==
    IF vals = <<>> THEN <<>>
    ELSE IF Len(vals) = 1 THEN ZeroPad(vals[1], 2)
         ELSE ZeroPad(vals[1], 2) \o sep \o Join(Tail(vals), sep)

\* what stands before the numbers in a generated reply: nothing; a date;
\* a leap day written without the space; a day February never has; a
\* lower-case label; a date of single digits
DateLines ==
    {<<>>,
     DateText(5, 3, 2024) \o <<"\n">>,
     TxtDate \o ZeroPad(29, 2) \o <<"/">> \o ZeroPad(2, 2) \o <<"/">> \o ZeroPad(2024, 4) \o <<"\n">>,
     DateText(31, 2, 2024) \o <<"\n">>,
     <<"d", "a", "t", "e", ":", " ">> \o ZeroPad(5, 2) \o <<"/">> \o ZeroPad(3, 2) \o <<"/">> \o ZeroPad(2024, 4) \o <<"\n">>,
     TxtDate \o <<" ", "5", "/", "3", "/">> \o ZeroPad(2024, 4) \o <<"\n">>}

\* what stands around the numbers: nothing, the label, the label and a
\* second date after the numbers
Frames ==
    {[label |-> <<>>, post |-> <<>>],
     [label |-> TxtNumbers \o <<" ">>, post |-> <<>>],
     [label |-> TxtNumbers \o <<" ">>, post |-> <<"\n">> \o DateText(7, 8, 2025)]}

Separators == {<<",", " ">>, <<",">>, <<"-">>, <<" ">>, <<"/">>}

BaseLists ==
    {<<1, 15, 23, 34, 42, 55>>,
     <<45, 2, 33, 2, 17, 8, 29>>,
     <<1, 15, 23, 34, 42>>,
     <<46, 47, 0, 56, 3, 50>>,
     <<>>}

TailPool == {7, 45, 100}

Tails == UNION {[1..k -> TailPool] : k \in 0..MaxTail}

\* the replies the parsers are exercised on
Replies ==
    {pre \o frame.label \o Join(base \o tail, sep) \o frame.post :
        pre \in DateLines, frame \in Frames, base \in BaseLists,
        tail \in Tails, sep \in Separators}

\* the replies the hosted model gives inside a run: the format asked for;
\* numbers without a date; two numbers only; a date no calendar has;
\* numbers above 45
PipelineReplies ==
    {DateText(5, 3, 2024) \o <<"\n">> \o TxtNumbers \o <<" ">>
        \o Join(<<11, 15, 23, 34, 42, 45>>, <<",", " ">>) \o <<"\n">>,
     TxtNumbers \o <<" ">> \o Join(<<1, 15, 23, 34, 42, 45>>, <<"-">>),
     DateText(5, 3, 2024) \o <<"\n">> \o TxtNumbers \o <<" ">>
        \o Join(<<1, 15>>, <<",", " ">>),
     DateText(31, 2, 2024) \o <<"\n">> \o TxtNumbers \o <<" ">>
        \o Join(<<1, 15, 23, 34, 42, 45>>, <<",", " ">>),
     DateText(7, 8, 2025) \o <<"\n">> \o TxtNumbers \o <<" ">>
        \o Join(<<46, 47, 50, 51, 52, 55>>, <<",", " ">>)}

\* ------------------------------------------------------------------ state

VARIABLES
    game,               \* which script runs: chatgpt_ocr.py or mega_6_45.py
    env_key,            \* os.environ.get("OPENAI_API_KEY")
    pc,                 \* where main is
    client,             \* self.client
    existing_draws,     \* self.existing_draws
    out_dir,            \* OUTPUT_DIR: path -> content of the file
    pdf_dir,            \* PDF_DIR: the paths in it
    image_dir,          \* IMAGE_DIR: the paths in it
    pdfs,               \* process_all_draws: the links, (draw_number, known_date)
    image_files,        \* process_existing_images: the sorted image paths
    i,                  \* position of the for loop in pdfs / image_files
    pdf_path,           \* locals of the loop body
    image_path,
    ocr_text,
    numbers,
    draw_date,
    total_draws,
    saved_draws,
    failed_draws,
    console,            \* which blocks of text were printed
    out_dir0,           \* history: OUTPUT_DIR when main started
    listing_fetched,    \* history: fetch_pdf_links issued a request
    http_gets,          \* history: PDF requests issued, per draw number
    pdftoppm_runs,      \* history: converter processes started, per draw number
    api_calls,          \* history: hosted-model requests issued, per draw number
    writes,             \* history: save_draw calls, per draw number
    slept_since_call    \* history: time.sleep ran after the last hosted-model call

disk     == <<out_dir, pdf_dir, image_dir>>
locals   == <<pdf_path, image_path, ocr_text, numbers, draw_date>>
counters == <<total_draws, saved_draws, failed_draws>>
setup    == <<game, env_key, out_dir0>>
history  == <<listing_fetched, http_gets, pdftoppm_runs, api_calls, writes, slept_since_call>>
vars     == <<setup, pc, client, existing_draws, disk, pdfs, image_files, i, locals,
              counters, console, history>>

DrawNumbers == 1..MaxLinks

\* the date fetch_pdf_links reads next to a link
KnownDate == datetime(2024, 3, 6, DRAW_HOUR, 0, 0)

\* the (draw_number, pdf_url, known_date) of fetch_pdf_links, without the
\* URL: download_pdf names the file by the draw number alone.  The listing
\* shows no date near the link of draw 1 and a date near every other link.
Links ==
    {[draw_number |-> n, known_date |-> IF n = 1 THEN None ELSE Some(KnownDate)] :
        n \in DrawNumbers}

\* what fetch_pdf_links can return
LinkLists == UNION {[1..k -> Links] : k \in 0..MaxLinks}

\* a record left by an earlier run
OldRecord(g, n) == DrawRecord(g, n, <<3, 9, 12, 27, 30, 41>>, datetime(2024, 1, 2, DRAW_HOUR, 0, 0))

\* what earlier runs of mega_6_45.py left behind for draw 1: nothing, all
\* three files, the record alone, the scratch files alone, the PDF alone
MegaDisks ==
    LET rec == WriteFile(<<>>, RecordPath("mega", 1), OldRecord("mega", 1))
    IN {[out |-> <<>>, pdf |-> {}, img |-> {}],
        [out |-> rec, pdf |-> {PdfPath(1)}, img |-> {ImagePath(1)}],
        [out |-> rec, pdf |-> {}, img |-> {}],
        [out |-> <<>>, pdf |-> {PdfPath(1)}, img |-> {ImagePath(1)}],
        [out |-> <<>>, pdf |-> {PdfPath(1)}, img |-> {}]}

\* a file of IMAGE_DIR that glob("draw_*.png") finds and whose second field
\* is no integer: draw_00001a.png
StrayImage == Path(DrawStem(1) \o <<"a">>, ".png")

\* chatgpt_ocr.py works on the images it finds; draw 1 may have a record
PowerDisks ==
    {[out |-> o, pdf |-> {}, img |-> {ImagePath(n) : n \in ns} \cup stray] :
        o \in {<<>>, WriteFile(<<>>, RecordPath("power", 1), OldRecord("power", 1))},
        ns \in SUBSET DrawNumbers,
        stray \in {{}, {StrayImage}}}

Disks(g) == IF g = "power" THEN PowerDisks ELSE MegaDisks

EnvKeys == {None, Some(<<>>), Some(<<"s", "k">>)}

ZeroCounts == [n \in DrawNumbers |-> 0]

\* everything but the script, the environment, the disk, the links and
\* the reply
Idle ==
    /\ client = None
    /\ existing_draws = {}
    /\ image_files = <<>>
    /\ i = 1
    /\ pdf_path = None
    /\ image_path = None
    /\ numbers = <<>>
    /\ draw_date = None
    /\ total_draws = 0
    /\ saved_draws = 0
    /\ failed_draws = 0
    /\ console = {}
    /\ listing_fetched = FALSE
    /\ http_gets = ZeroCounts
    /\ pdftoppm_runs = ZeroCounts
    /\ api_calls = ZeroCounts
    /\ writes = ZeroCounts
    /\ slept_since_call = TRUE

Init ==
    /\ game \in Games
    /\ env_key \in EnvKeys
    /\ \E d \in Disks(game) :
          /\ out_dir = d.out
          /\ pdf_dir = d.pdf
          /\ image_dir = d.img
    /\ out_dir0 = out_dir
    /\ pc = "main"
    /\ pdfs = <<>>
    /\ ocr_text = <<>>
    /\ Idle

\* ------------------------------------------------------------ construction

\* fault model: `is not None` in place of truthiness
IsNotNone(key) == key /= None

\* `if api_key:` / `if not api_key:` on an Optional string
Truthy(key) == key /= None /\ key[1] /= <<>>

\* __init__: the key the client is built with (the argument, else the
\* environment variable); construction raises when it is not truthy
ResolveKey(api_key, env) == IF Truthy(api_key) THEN api_key ELSE env

\* the except block of main
Troubleshoot ==
    /\ pc' = "exit"
    /\ console' = console \cup {"troubleshooting"}

\* main: `ocr = VietlottChatGPTOCR()` / `ocr = VietlottMegaOCR()`
main_construct ==
    /\ pc = "main"
    /\ IF ~Truthy(ResolveKey(None, env_key))
       THEN /\ Troubleshoot
            /\ UNCHANGED <<client, existing_draws>>
       ELSE /\ client' = Some("OpenAI")
            /\ existing_draws' = get_existing_draws(game, out_dir)
            /\ pc' = "constructed"
            /\ UNCHANGED console
    /\ UNCHANGED <<setup, disk, pdfs, image_files, i, locals, counters, history>>

\* ------------------------------------------------------------- the prompt

\* what the user types at the prompt, stripped
UserInputs == {<<>>, <<"0">>, <<"1">>, <<"-", "1">>, <<"x">>}

\* whether int(s) accepts s: digits, with an optional sign
IsIntText(s) ==
    LET body == IF s /= <<>> /\ s[1] = "-" THEN Tail(s) ELSE s
    IN body /= <<>> /\ \A k \in 1..Len(body) : IsDigit(body[k])

IntText(s) == IF s[1] = "-" THEN 0 - IntOf(Tail(s)) ELSE IntOf(s)

\* main: the limit for an input int() accepts; None for the empty input
LimitOf(user_input) ==
    IF user_input = <<>> THEN None
    ELSE IF IntText(user_input) = 0 THEN Some(1) ELSE Some(IntText(user_input))

\* `if limit: xs = xs[:limit]`
Slice(xs, limit) ==
    IF limit = None \/ limit[1] = 0 THEN xs
    ELSE IF limit[1] > 0
         THEN SubSeq(xs, 1, IF limit[1] < Len(xs) THEN limit[1] ELSE Len(xs))
         ELSE SubSeq(xs, 1, Len(xs) + limit[1])

\* the characters of the image names, in code point order
Alphabet == Digits \o <<"_", "a", "d", "r", "w">>

CharCode(c) == CHOOSE k \in 1..Len(Alphabet) : Alphabet[k] = c

\* a < b for strings
RECURSIVE StrLess(_, _)
StrLess(a, b) ==
    IF b = <<>> THEN FALSE
    ELSE IF a = <<>> THEN TRUE
    ELSE IF Head(a) = Head(b) THEN StrLess(Tail(a), Tail(b))
    ELSE CharCode(Head(a)) < CharCode(Head(b))

\* sorted(Path(IMAGE_DIR).glob("draw_*.png"))
RECURSIVE SortedPaths(_)
SortedPaths(paths) ==
    IF paths = {} THEN <<>>
    ELSE LET first == CHOOSE f \in paths :
                         \A h \in paths \ {f} : StrLess(f.stem, h.stem)
         IN <<first>> \o SortedPaths(paths \ {first})

GlobImages(dir) ==
    {f \in dir : f.suffix = ".png" /\ IsPrefix(<<"d", "r", "a", "w", "_">>, f.stem)}

\* main from the prompt on, and process_all_draws / process_existing_images
\* up to the loop: the limit, the list to work through, the counters
main_begin ==
    /\ pc = "constructed"
    /\ \E user_input \in UserInputs :
          IF ~(user_input = <<>> \/ IsIntText(user_input))
          THEN \* int(user_input) raises ValueError
               /\ Troubleshoot
               /\ UNCHANGED <<pdfs, image_files, listing_fetched>>
          ELSE IF game = "mega"
          THEN /\ listing_fetched' = TRUE
               /\ \/ \* requests.get raises inside fetch_pdf_links
                     /\ Troubleshoot
                     /\ UNCHANGED pdfs
                  \/ \E all_pdfs \in LinkLists :
                        /\ pdfs' = Slice(all_pdfs, LimitOf(user_input))
                        /\ pc' = "loop"
                        /\ UNCHANGED console
               /\ UNCHANGED image_files
          ELSE /\ image_files' = Slice(SortedPaths(GlobImages(image_dir)), LimitOf(user_input))
               /\ pc' = "loop"
               /\ UNCHANGED <<pdfs, console, listing_fetched>>
    /\ i' = 1
    /\ total_draws' = 0
    /\ saved_draws' = 0
    /\ failed_draws' = 0
    /\ UNCHANGED <<setup, client, existing_draws, disk, locals>>
    /\ UNCHANGED <<http_gets, pdftoppm_runs, api_calls, writes, slept_since_call>>

\* --------------------------------------------------------------- the loop

Bump(f, n) == [f EXCEPT ![n] = @ + 1]

\* the `except Exception` of the loop body, and the early `continue`s:
\* the draw is counted as failed and the loop goes on
FailDraw ==
    /\ failed_draws' = failed_draws + 1
    /\ i' = i + 1
    /\ pc' = "loop"
    /\ UNCHANGED <<total_draws, saved_draws>>

\* mega_6_45.py: `if draw_id in self.existing_draws: continue`
mega_skip_existing ==
    /\ game = "mega" /\ pc = "loop" /\ i <= Len(pdfs)
    /\ DrawId(game, pdfs[i].draw_number) \in existing_draws
    /\ i' = i + 1
    /\ UNCHANGED <<setup, pc, client, existing_draws, disk, pdfs, image_files, locals,
                   counters, console, history>>

\* what the server answers to the request for a PDF
HttpOutcomes == {"200", "404", "exception"}

\* download_pdf: [pdf_path, pdf_dir, requested]
download_pdf(dir, n, outcome) ==
    IF PdfPath(n) \in dir
    THEN [pdf_path |-> Some(PdfPath(n)), pdf_dir |-> dir, requested |-> FALSE]
    ELSE IF outcome = "200"
         THEN [pdf_path |-> Some(PdfPath(n)), pdf_dir |-> dir \cup {PdfPath(n)},
               requested |-> TRUE]
         ELSE [pdf_path |-> None, pdf_dir |-> dir, requested |-> TRUE]

\* mega_6_45.py: the skip test fails, then `pdf_path = self.download_pdf(...)`
mega_download_pdf ==
    /\ game = "mega" /\ pc = "loop" /\ i <= Len(pdfs)
    /\ DrawId(game, pdfs[i].draw_number) \notin existing_draws
    /\ \E outcome \in HttpOutcomes :
          LET n == pdfs[i].draw_number
              r == download_pdf(pdf_dir, n, outcome)
          IN /\ pdf_path' = r.pdf_path
             /\ pdf_dir' = r.pdf_dir
             /\ http_gets' = IF r.requested THEN Bump(http_gets, n) ELSE http_gets
             /\ IF r.pdf_path = None
                THEN FailDraw
                ELSE /\ pc' = "convert"
                     /\ UNCHANGED <<i, counters>>
    /\ UNCHANGED <<setup, client, existing_draws, out_dir, image_dir, pdfs, image_files,
                   image_path, ocr_text, numbers, draw_date, console>>
    /\ UNCHANGED <<listing_fetched, pdftoppm_runs, api_calls, writes, slept_since_call>>

\* how a run of pdftoppm ends: the image is there; it exits non-zero; it
\* exits zero without the image; subprocess.run raises before it starts
ConvertOutcomes == {"ok", "nonzero", "no_image", "exception"}

\* fault model: the method without the os.path.exists test
convert_always(g, dir, n, outcome) ==
    IF outcome = "ok"
    THEN [image_path |-> Some(Path(<<"d", "r", "a", "w", "_">> \o ZeroPad(n, ID_WIDTH), ".png")),
          image_dir |-> dir \cup {Path(<<"d", "r", "a", "w", "_">> \o ZeroPad(n, ID_WIDTH), ".png")},
          ran |-> TRUE, raised |-> FALSE]
    ELSE [image_path |-> None, image_dir |-> dir, ran |-> outcome /= "exception",
          raised |-> g = "power"]

\* convert_pdf_to_image of either class: [image_path, image_dir, ran, raised].
\* chatgpt_ocr.py raises where mega_6_45.py returns None.
convert_pdf_to_image(g, dir, n, outcome) ==
    IF ImagePath(n) \in dir
    THEN [image_path |-> Some(ImagePath(n)), image_dir |-> dir, ran |-> FALSE,
          raised |-> FALSE]
    ELSE IF outcome = "ok"
         THEN [image_path |-> Some(ImagePath(n)), image_dir |-> dir \cup {ImagePath(n)},
               ran |-> TRUE, raised |-> FALSE]
         ELSE [image_path |-> None, image_dir |-> dir, ran |-> outcome /= "exception",
               raised |-> g = "power"]

\* mega_6_45.py: `image_path = self.convert_pdf_to_image(pdf_path, draw_number)`
mega_convert_pdf_to_image ==
    /\ game = "mega" /\ pc = "convert"
    /\ \E outcome \in ConvertOutcomes :
          LET n == pdfs[i].draw_number
              r == convert_pdf_to_image(game, image_dir, n, outcome)
          IN /\ image_path' = r.image_path
             /\ image_dir' = r.image_dir
             /\ pdftoppm_runs' = IF r.ran THEN Bump(pdftoppm_runs, n) ELSE pdftoppm_runs
             /\ IF r.image_path = None
                THEN FailDraw
                ELSE /\ pc' = "extract"
                     /\ UNCHANGED <<i, counters>>
    /\ UNCHANGED <<setup, client, existing_draws, out_dir, pdf_dir, pdfs, image_files,
                   pdf_path, ocr_text, numbers, draw_date, console>>
    /\ UNCHANGED <<listing_fetched, http_gets, api_calls, writes, slept_since_call>>

\* str.strip()
RECURSIVE LStrip(_)
LStrip(text) ==
    IF text /= <<>> /\ IsSpace(Head(text)) THEN LStrip(Tail(text)) ELSE text

RECURSIVE RStrip(_)
RStrip(text) ==
    IF text /= <<>> /\ IsSpace(text[Len(text)])
    THEN RStrip(SubSeq(text, 1, Len(text) - 1))
    ELSE text

Strip(text) == RStrip(LStrip(text))

\* `if draw_date is None and known_date: draw_date = known_date`
\* (chatgpt_ocr.py has no known date)
FallbackDate(parsed, known_date) ==
    IF parsed = None /\ known_date /= None THEN known_date ELSE parsed

\* fault model: the test without the count of the numbers
HasDate(nums, date) == date /= None

\* `if len(numbers) == 6 and draw_date is not None`
Complete(nums, date) == Len(nums) = NUMBERS_WANTED /\ date /= None

\* extract_numbers_with_chatgpt after the request, for a reply of the
\* model: ocr_text = content.strip(), then the two parsers
Extraction(g, reply) ==
    LET text == Strip(reply)
    IN [text |-> text,
        date |-> parse_date_from_response(text),
        nums |-> parse_numbers_from_response(g, text)]

\* the try block from extract_numbers_with_chatgpt on, for draw n:
\* the request, the parsing of the reply, save_draw or the warnings,
\* the counters and time.sleep
ExtractAndSave(n, known_date) ==
    /\ api_calls' = Bump(api_calls, n)
    /\ \/ \* the request raises: nothing is parsed, the except block counts
          /\ slept_since_call' = FALSE
          /\ FailDraw
          /\ UNCHANGED <<ocr_text, numbers, draw_date, out_dir, writes>>
       \/ \E x \in {Extraction(game, reply) : reply \in PipelineReplies} :
             LET text == x.text
                 d    == x.date
                 nums == x.nums
                 date == FallbackDate(d.value, known_date)
             IN /\ ocr_text' = text
                /\ IF d.raised
                   THEN \* datetime() raises ValueError inside the try block
                        /\ slept_since_call' = FALSE
                        /\ FailDraw
                        /\ UNCHANGED <<numbers, draw_date, out_dir, writes>>
                   ELSE /\ numbers' = nums
                        /\ draw_date' = date
                        /\ IF Complete(nums, date)
                           THEN /\ out_dir' = save_draw(game, out_dir, n, nums, date[1])
                                /\ writes' = Bump(writes, n)
                                /\ saved_draws' = saved_draws + 1
                                /\ UNCHANGED failed_draws
                           ELSE /\ failed_draws' = failed_draws + 1
                                /\ UNCHANGED <<out_dir, writes, saved_draws>>
                        /\ total_draws' = total_draws + 1
                        /\ slept_since_call' = TRUE
                        /\ i' = i + 1
                        /\ pc' = "loop"

\* mega_6_45.py: the rest of the try block
mega_extract_and_save ==
    /\ game = "mega" /\ pc = "extract"
    /\ ExtractAndSave(pdfs[i].draw_number, pdfs[i].known_date)
    /\ UNCHANGED <<setup, client, existing_draws, pdf_dir, image_dir, pdfs, image_files,
                   pdf_path, image_path, console>>
    /\ UNCHANGED <<listing_fetched, http_gets, pdftoppm_runs>>

\* chatgpt_ocr.py: draw_number = int(image_file.stem.split("_")[1])
ImageDrawNumber(f) == IntOf(SecondField(f.stem, "_"))

\* chatgpt_ocr.py: int(...) of the line above raises ValueError; the line
\* stands before the try block, so the exception leaves the loop and
\* process_existing_images and reaches the except block of main
power_draw_number_raises ==
    /\ game = "power" /\ pc = "loop" /\ i <= Len(image_files)
    /\ ~IsIntText(SecondField(image_files[i].stem, "_"))
    /\ Troubleshoot
    /\ UNCHANGED <<setup, client, existing_draws, disk, pdfs, image_files, i, locals,
                   counters, history>>

\* chatgpt_ocr.py: one pass of the loop; an existing record only prints
\* the "Updating existing draw" notice
power_extract_and_save ==
    /\ game = "power" /\ pc = "loop" /\ i <= Len(image_files)
    /\ IsIntText(SecondField(image_files[i].stem, "_"))
    /\ ExtractAndSave(ImageDrawNumber(image_files[i]), None)
    /\ UNCHANGED <<setup, client, existing_draws, pdf_dir, image_dir, pdfs, image_files,
                   pdf_path, image_path, console>>
    /\ UNCHANGED <<listing_fetched, http_gets, pdftoppm_runs>>

\* the end of the loop: the summary is printed and main returns
print_summary ==
    /\ pc = "loop"
    /\ i > (IF game = "mega" THEN Len(pdfs) ELSE Len(image_files))
    /\ console' = console \cup {"summary"}
    /\ pc' = "exit"
    /\ UNCHANGED <<setup, client, existing_draws, disk, pdfs, image_files, i, locals,
                   counters, history>>

Next ==
    \/ main_construct
    \/ main_begin
    \/ mega_skip_existing
    \/ mega_download_pdf
    \/ mega_convert_pdf_to_image
    \/ mega_extract_and_save
    \/ power_draw_number_raises
    \/ power_extract_and_save
    \/ print_summary

Spec == Init /\ [][Next]_vars

\* ------------------------------------------------- the parsers on their own

\* extract_numbers_with_chatgpt has a reply of Replies in hand, for either
\* game; the output directory is empty
InitParse ==
    /\ game \in Games
    /\ env_key = Some(<<"s", "k">>)
    /\ out_dir = <<>>
    /\ pdf_dir = {}
    /\ image_dir = {}
    /\ out_dir0 = out_dir
    /\ pc = "reply"
    /\ pdfs = <<>>
    /\ ocr_text \in {Strip(reply) : reply \in Replies}
    /\ Idle

\* draw_date = self.parse_date_from_response(ocr_text)
call_parse_date ==
    /\ pc = "reply"
    /\ LET d == parse_date_from_response(ocr_text)
       IN /\ draw_date' = d.value
          /\ pc' = IF d.raised THEN "date_raised" ELSE "date_returned"
    /\ UNCHANGED <<setup, client, existing_draws, disk, pdfs, image_files, i, pdf_path,
                   image_path, ocr_text, numbers, counters, console, history>>

\* numbers = self.parse_numbers_from_response(ocr_text), also after a date
\* that raised
call_parse_numbers ==
    /\ pc \in {"date_returned", "date_raised"}
    /\ numbers' = parse_numbers_from_response(game, ocr_text)
    /\ pc' = IF pc = "date_returned" THEN "parsed" ELSE "parsed_date_raised"
    /\ UNCHANGED <<setup, client, existing_draws, disk, pdfs, image_files, i, pdf_path,
                   image_path, ocr_text, draw_date, counters, console, history>>

\* self.save_draw(draw_number, numbers, draw_date) with the parsed values
call_save_draw ==
    /\ pc = "parsed"
    /\ draw_date /= None
    /\ \E n \in DrawNumbers :
          /\ out_dir' = save_draw(game, out_dir, n, numbers, draw_date[1])
          /\ writes' = Bump(writes, n)
    /\ pc' = "saved"
    /\ UNCHANGED <<setup, client, existing_draws, pdf_dir, image_dir, pdfs, image_files,
                   i, locals, counters, console>>
    /\ UNCHANGED <<listing_fetched, http_gets, pdftoppm_runs, api_calls, slept_since_call>>

NextParse ==
    \/ call_parse_date
    \/ call_parse_numbers
    \/ call_save_draw

SpecParse == InitParse /\ [][NextParse]_vars

\* ---------------------------------------------- the converter on its own

\* convert_pdf_to_image is about to be called for the draw of pdfs[1], in
\* either class, whatever images IMAGE_DIR holds
InitConvert ==
    /\ game \in Games
    /\ env_key = Some(<<"s", "k">>)
    /\ out_dir = <<>>
    /\ pdf_dir = {PdfPath(n) : n \in DrawNumbers}
    /\ image_dir \in SUBSET {ImagePath(n) : n \in DrawNumbers}
    /\ out_dir0 = out_dir
    /\ pc = "convert_1"
    /\ pdfs \in [1..1 -> Links]
    /\ ocr_text = <<>>
    /\ Idle

\* image_path = self.convert_pdf_to_image(pdf_path, draw_number); an
\* exception of chatgpt_ocr.py's method is noted on the console.  The
\* position after the call tells whether a path was returned.
ConvertCall(returned_pc, failed_pc) ==
    /\ \E outcome \in ConvertOutcomes :
          LET n == pdfs[1].draw_number
              r == convert_pdf_to_image(game, image_dir, n, outcome)
          IN /\ pdf_path' = Some(PdfPath(n))
             /\ image_path' = r.image_path
             /\ image_dir' = r.image_dir
             /\ pdftoppm_runs' = IF r.ran THEN Bump(pdftoppm_runs, n) ELSE pdftoppm_runs
             /\ console' = IF r.raised THEN console \cup {"raised"} ELSE console \ {"raised"}
             /\ pc' = IF r.image_path = None THEN failed_pc ELSE returned_pc
    /\ UNCHANGED <<setup, client, existing_draws, out_dir, pdf_dir, pdfs, image_files, i,
                   ocr_text, numbers, draw_date, counters>>
    /\ UNCHANGED <<listing_fetched, http_gets, api_calls, writes, slept_since_call>>

call_convert_first ==
    /\ pc = "convert_1"
    /\ ConvertCall("convert_2", "convert_2_after_failure")

\* the second call for the same draw number
call_convert_second ==
    /\ pc \in {"convert_2", "convert_2_after_failure", "convert_2_after_removal"}
    /\ ConvertCall(IF pc = "convert_2" THEN "converted" ELSE "converted_late", "convert_failed")

\* between the calls somebody empties part of the scratch directory
remove_image ==
    /\ pc = "convert_2"
    /\ \E f \in image_dir : image_dir' = image_dir \ {f}
    /\ pc' = IF image_path[1] \in image_dir' THEN pc ELSE "convert_2_after_removal"
    /\ UNCHANGED <<setup, client, existing_draws, out_dir, pdf_dir, pdfs, image_files,
                   i, locals, counters, console, history>>

NextConvert ==
    \/ call_convert_first
    \/ call_convert_second
    \/ remove_image

SpecConvert == InitConvert /\ [][NextConvert]_vars

\* ------------------------------------------- the vocabulary of the claims

\* the value of the digits text[p..q]
RECURSIVE DecimalValue(_, _, _)
DecimalValue(text, p, q) ==
    IF q < p THEN 0 ELSE 10 * DecimalValue(text, p, q - 1) + DigitVal(text[q])

\* the last position of the run of digits that holds position p
RunEnd(text, p) ==
    CHOOSE q \in p..Len(text) :
        /\ \A k \in p..q : IsDigit(text[k])
        /\ q = Len(text) \/ ~IsDigit(text[q + 1])

\* the integers a text contains: the values of its maximal runs of digits
IntegersIn(text) ==
    {DecimalValue(text, p, RunEnd(text, p)) :
        p \in {p \in 1..Len(text) : IsDigit(text[p]) /\ (p = 1 \/ ~IsDigit(text[p - 1]))}}

\* the characters that end a token: white space, dash, comma
IsSeparator(c) == c \in {" ", "\n", "\t", "-", ","}

\* no digit stands between position k and the start of its token
RECURSIVE NoDigitBefore(_, _)
NoDigitBefore(text, k) ==
    \/ k = 0
    \/ IsSeparator(text[k])
    \/ ~IsDigit(text[k]) /\ NoDigitBefore(text, k - 1)

\* the integers that lead a token: for every maximal run of characters
\* without separator, the value of its first run of digits
LeadingIntegers(text) ==
    {DecimalValue(text, p, RunEnd(text, p)) :
        p \in {p \in 1..Len(text) : IsDigit(text[p]) /\ NoDigitBefore(text, p - 1)}}

\* [1,55] for Power, [1,45] for Mega
InGameRange(g, v) == 1 <= v /\ v <= (IF g = "power" THEN 55 ELSE 45)

StrictlyAscending(s) == \A k \in 1..(Len(s) - 1) : s[k] < s[k + 1]

\* the positions <<p, q>> of a 'Date: DD/MM/YYYY': "Date:" at p, white space
\* up to q, two digits, a slash, two digits, a slash, four digits
DateLinesIn(text) ==
    UNION {{<<p, q>> : q \in {q \in (p + 5)..(Len(text) - 9) :
                                /\ \A k \in (p + 5)..(q - 1) : IsSpace(text[k])
                                /\ \A k \in {0, 1, 3, 4, 6, 7, 8, 9} : IsDigit(text[q + k])
                                /\ text[q + 2] = "/" /\ text[q + 5] = "/"}} :
           p \in {p \in 1..(Len(text) - 4) : SubSeq(text, p, p + 4) = TxtDate}}

\* where the digits of the first Date line start, 0 without a Date line
FirstDateAt(text) ==
    LET lines == DateLinesIn(text)
    IN IF lines = {} THEN 0
       ELSE (CHOOSE m \in lines : \A o \in lines : m[1] <= o[1])[2]

\* the day, month and year written at position q, at 18:00:00
WrittenAt(text, q) ==
    [year   |-> DecimalValue(text, q + 6, q + 9),
     month  |-> DecimalValue(text, q + 3, q + 4),
     day    |-> DecimalValue(text, q, q + 1),
     hour   |-> 18, minute |-> 0, second |-> 0]

WrittenDate(text) == WrittenAt(text, FirstDateAt(text))

\* a day of the calendar
InCalendar(d) ==
    /\ d.year \in 1..9999
    /\ d.month \in 1..12
    /\ d.day \in 1..DaysInMonth(d.year, d.month)

\* the first Date line names a day of the calendar
IsCalendarDate(text) ==
    LET q == FirstDateAt(text) IN q /= 0 /\ InCalendar(WrittenAt(text, q))

\* YYYY-MM-DDT18:00:00Z, with the digits as written
WrittenIsoZ(text) ==
    LET q == FirstDateAt(text)
    IN SubSeq(text, q + 6, q + 9) \o <<"-">> \o SubSeq(text, q + 3, q + 4) \o <<"-">>
       \o SubSeq(text, q, q + 1)
       \o <<"T", "1", "8", ":", "0", "0", ":", "0", "0", "Z">>

\* both parsers were applied to ocr_text
BothParsed == pc \in {"parsed", "parsed_date_raised", "saved"}

\* ------------------------------------------------------------------- C1

\* the in-range integers among a set of integers
InRange(g, ints) == {v \in ints : InGameRange(g, v)}

\* six unique integers in ascending order, each in range, and the written
\* date at 18:00
SixAndDate ==
    /\ pc \in {"parsed", "saved"}
    /\ Len(numbers) = 6
    /\ StrictlyAscending(numbers)
    /\ \A k \in 1..Len(numbers) : InGameRange(game, numbers[k])
    /\ draw_date = <<WrittenDate(ocr_text)>>

\* C1 as stated: for every reply with a Date line that names a calendar date
\* and at least 6 distinct in-range integers anywhere in it, extraction
\* yields exactly 6 unique integers in ascending order, each in range, and
\* that date at 18:00.
C1_AnyIntegers ==
    (BothParsed /\ IsCalendarDate(ocr_text)
       /\ Cardinality(InRange(game, IntegersIn(ocr_text))) >= 6)
    => SixAndDate

\* C1, amended: for every reply whose first Date line names a calendar date
\* and in which at least 6 distinct in-range integers lead a token (a token
\* is a maximal run without white space, dash or comma; its integer is its
\* first run of digits), extraction yields exactly 6 unique integers in
\* ascending order, each in range, and that date at 18:00.
C1_LeadingIntegers ==
    (BothParsed /\ IsCalendarDate(ocr_text)
       /\ Cardinality(InRange(game, LeadingIntegers(ocr_text))) >= 6)
    => SixAndDate

\* a reply with a calendar date and seven in-range leading integers, one of
\* them twice, was parsed to six numbers and its date
C1_Witness ==
    /\ pc = "parsed"
    /\ IsCalendarDate(ocr_text)
    /\ Cardinality(InRange(game, LeadingIntegers(ocr_text))) >= 7
    /\ Len(numbers) = 6
    /\ draw_date = <<WrittenDate(ocr_text)>>

\* ------------------------------------------------------------------- C3

\* C3: whatever the reply, parse_numbers_from_response returns at most 6
\* numbers, strictly ascending (so without duplicates), each within [1,55]
\* for Power and [1,45] for Mega.
C3_AtMostSixAscendingInRange ==
    BothParsed =>
        /\ Len(numbers) <= 6
        /\ StrictlyAscending(numbers)
        /\ \A k \in 1..Len(numbers) : InGameRange(game, numbers[k])

\* a Mega reply that holds integers of 46..55 and out-of-range integers was
\* parsed
C3_Witness ==
    /\ pc = "parsed_date_raised" \/ pc = "parsed"
    /\ game = "mega"
    /\ \E v \in IntegersIn(ocr_text) : 46 <= v /\ v <= 55
    /\ \E v \in IntegersIn(ocr_text) : v = 0 \/ v > 55
    /\ numbers /= <<>>

\* ------------------------------------------------------------------- C4

\* Numbers: 01, 15, 23, 34, 42, 55
NumbersLineExample ==
    <<"N", "u", "m", "b", "e", "r", "s", ":", " ",
      "0", "1", ",", " ", "1", "5", ",", " ", "2", "3", ",", " ",
      "3", "4", ",", " ", "4", "2", ",", " ", "5", "5">>

\* two decimal digits
TwoDigits(v) == <<Digits[(v \div 10) + 1], Digits[(v % 10) + 1]>>

\* 'Numbers: ' followed by the two-digit values with a separator between
RECURSIVE NumbersLine(_, _)
NumbersLine(vals, sep) ==
    IF Len(vals) = 1 THEN TxtNumbers \o <<" ">> \o TwoDigits(vals[1])
    ELSE NumbersLine(SubSeq(vals, 1, Len(vals) - 1), sep) \o sep \o TwoDigits(vals[Len(vals)])

\* lists of six distinct values
SixValues == {<<1, 15, 23, 34, 42, 55>>, <<1, 15, 23, 34, 42, 45>>, <<1, 15, 23, 34, 42, 7>>}

\* comma and space, comma, dash, space
ListSeparators == {<<",", " ">>, <<",">>, <<"-">>, <<" ">>}

\* C4: a reply that is one line 'Numbers: ' followed by six distinct
\* in-range two-digit values separated by commas, dashes or spaces parses to
\* these six values in ascending order; 'Numbers: 01, 15, 23, 34, 42, 55'
\* parses to [1, 15, 23, 34, 42, 55] for Power.
C4_NumbersLine ==
    (BothParsed /\ Len(ocr_text) >= 8 /\ SubSeq(ocr_text, 1, 8) = TxtNumbers) =>
        /\ \A vals \in SixValues : \A sep \in ListSeparators :
              (ocr_text = NumbersLine(vals, sep) /\ \A k \in 1..6 : InGameRange(game, vals[k]))
              => /\ Len(numbers) = 6
                 /\ StrictlyAscending(numbers)
                 /\ Range(numbers) = Range(vals)
        /\ (game = "power" /\ ocr_text = NumbersLineExample)
              => numbers = <<1, 15, 23, 34, 42, 55>>

\* the example line was parsed for Power
C4_Witness ==
    /\ BothParsed
    /\ game = "power"
    /\ ocr_text = NumbersLineExample
    /\ Len(numbers) = 6

\* ------------------------------------------------------------------- C5

\* every record of the output directory names the written date at 18:00:00
\* with a trailing Z
SavedWithZ ==
    pc = "saved" =>
        \A f \in DOMAIN out_dir :
            writes[out_dir[f].draw_number] > 0 => out_dir[f].draw_date = WrittenIsoZ(ocr_text)

\* the date parser raised ValueError
DateRaised == pc \in {"date_raised", "parsed_date_raised"}

\* C5 as stated: parse_date_from_response returns the day, month and year of
\* the first 'Date: DD/MM/YYYY' of the reply at 18:00:00 and unset if there
\* is none; save_draw writes that date-time with a trailing Z.
C5_FirstMatch ==
    /\ pc /= "reply" =>
          LET q == FirstDateAt(ocr_text)
          IN IF q /= 0
             THEN ~DateRaised /\ draw_date = <<WrittenAt(ocr_text, q)>>
             ELSE ~DateRaised /\ draw_date = None
    /\ SavedWithZ

\* C5, amended: parse_date_from_response returns the day, month and year of
\* the first 'Date: DD/MM/YYYY' of the reply at 18:00:00 when they name a
\* day of the calendar, raises ValueError when they do not, and returns
\* unset if there is no match; save_draw writes the returned date-time with
\* a trailing Z.
C5_FirstCalendarMatch ==
    /\ pc /= "reply" =>
          LET q == FirstDateAt(ocr_text)
          IN IF q /= 0
             THEN IF InCalendar(WrittenAt(ocr_text, q))
                  THEN ~DateRaised /\ draw_date = <<WrittenAt(ocr_text, q)>>
                  ELSE DateRaised /\ draw_date = None
             ELSE ~DateRaised /\ draw_date = None
    /\ SavedWithZ

\* a reply with two Date lines was parsed to the first one and saved
C5_Witness ==
    /\ pc = "saved"
    /\ Cardinality(DateLinesIn(ocr_text)) = 2
    /\ WrittenDate(ocr_text).day /= WrittenDate(ocr_text).month
    /\ draw_date = <<WrittenDate(ocr_text)>>
    /\ \E f \in DOMAIN out_dir : out_dir[f].draw_date = WrittenIsoZ(ocr_text)

\* ------------------------------------------------------------------- C2

\* C2: when the reply holds fewer than 6 distinct in-range integers, the
\* numbers parsed from it are fewer than 6 and are integers of the reply,
\* the draw is counted as failed and not as saved, and no record file is
\* written.
C2_FewIntegersFail ==
    [][(api_calls' /= api_calls
          /\ Cardinality(InRange(game, IntegersIn(ocr_text'))) < 6)
       => /\ failed_draws' = failed_draws + 1
          /\ saved_draws' = saved_draws
          /\ out_dir' = out_dir
          /\ writes' = writes
          /\ total_draws' /= total_draws
                => /\ Len(numbers') < 6
                   /\ Range(numbers') \subseteq InRange(game, IntegersIn(ocr_text'))]_vars

\* the first draw of a run got a reply with a few in-range integers and
\* failed without a record
C2_Witness ==
    /\ pc = "loop"
    /\ total_draws = 1
    /\ failed_draws = 1
    /\ saved_draws = 0
    /\ ocr_text /= <<>>
    /\ Cardinality(InRange(game, IntegersIn(ocr_text))) \in 1..5
    /\ numbers /= <<>> /\ Len(numbers) < 6
    /\ draw_date /= None
    /\ out_dir = out_dir0

\* ------------------------------------------------------------------- C6

\* five decimal digits
FiveDigits(n) ==
    <<Digits[((n \div 10000) % 10) + 1], Digits[((n \div 1000) % 10) + 1],
      Digits[((n \div 100) % 10) + 1], Digits[((n \div 10) % 10) + 1], Digits[(n % 10) + 1]>>

\* <game>_<draw number on five digits>
IdOf(g, n) ==
    (IF g = "power" THEN <<"p", "o", "w", "e", "r">> ELSE <<"m", "e", "g", "a">>)
    \o <<"_">> \o FiveDigits(n)

\* the record file of a draw
RecordFile(g, n) == [stem |-> IdOf(g, n), suffix |-> ".json"]

\* C6: in the Mega pipeline, for a draw whose record file exists when the
\* run starts, no PDF is requested, no conversion runs, no model call is
\* made and the record file stays as it was.
C6_ExistingSkipped ==
    game = "mega" =>
        \A n \in DrawNumbers :
            RecordFile("mega", n) \in DOMAIN out_dir0 =>
                /\ http_gets[n] = 0
                /\ pdftoppm_runs[n] = 0
                /\ api_calls[n] = 0
                /\ writes[n] = 0
                /\ RecordFile("mega", n) \in DOMAIN out_dir
                /\ out_dir[RecordFile("mega", n)] = out_dir0[RecordFile("mega", n)]

\* a Mega run whose list named a draw with a record, and no scratch files,
\* came to its end
C6_Witness ==
    /\ game = "mega"
    /\ pc = "exit"
    /\ "summary" \in console
    /\ \E k \in 1..Len(pdfs) :
          /\ RecordFile("mega", pdfs[k].draw_number) \in DOMAIN out_dir0
          /\ pdf_dir = {}
          /\ api_calls[pdfs[k].draw_number] = 0

\* ------------------------------------------------------------------- C7

\* C7: within one run of the Mega pipeline the record file of a draw id is
\* written at most once, whatever the list of links.
C7_WrittenAtMostOnce ==
    game = "mega" => \A n \in DrawNumbers : writes[n] <= 1

\* ------------------------------------------------------------------- C8

\* a record as the data model describes it
WellFormedRecord(g, n, r) ==
    /\ Len(r.numbers) = 6
    /\ StrictlyAscending(r.numbers)
    /\ \A k \in 1..Len(r.numbers) : InGameRange(g, r.numbers[k])
    /\ Len(r.draw_date) = 20 /\ r.draw_date[20] = "Z"
    /\ r.draw_number = n
    /\ r.id = IdOf(g, n)

\* C8: every record file written by either orchestrator holds 6 unique
\* ascending in-range numbers, a set date and the id <game>_<draw number on
\* 5 digits>, which is the name of the file; the run creates no other file
\* in the output directory.
C8_RecordsWellFormed ==
    /\ \A n \in DrawNumbers :
          writes[n] > 0 =>
              /\ RecordFile(game, n) \in DOMAIN out_dir
              /\ WellFormedRecord(game, n, out_dir[RecordFile(game, n)])
    /\ \A f \in DOMAIN out_dir :
          f \in DOMAIN out_dir0 \/ \E n \in DrawNumbers : writes[n] > 0 /\ f = RecordFile(game, n)

\* a run wrote the records of two draws
C8_Witness ==
    /\ pc = "exit"
    /\ saved_draws = 2
    /\ \E n \in DrawNumbers, m \in DrawNumbers :
          /\ n /= m
          /\ writes[n] > 0 /\ writes[m] > 0
          /\ {RecordFile(game, n), RecordFile(game, m)} \subseteq DOMAIN out_dir

\* ------------------------------------------------------------------- C9

\* C9: when convert_pdf_to_image returned a path and is called again for
\* the same draw number while that image exists, it returns the same path
\* and the converter does not run.
C9_ConvertIdempotent ==
    [][(/\ pc = "convert_2"
        /\ pc' \notin {"convert_2", "convert_2_after_removal"}
        /\ image_path /= None
        /\ image_path[1] \in image_dir)
       => /\ image_path' = image_path
          /\ pdftoppm_runs' = pdftoppm_runs
          /\ image_dir' = image_dir]_vars

\* the first call ran the converter, the second returned the image
C9_Witness ==
    /\ pc = "converted"
    /\ pdftoppm_runs[pdfs[1].draw_number] = 1
    /\ image_path /= None
    /\ image_path[1] \in image_dir

\* ------------------------------------------------------------------ C10

\* C10: when OPENAI_API_KEY is unset or empty, construction fails before
\* any work: no client, no listing, no request for a PDF, no conversion, no
\* model call, no record; main prints the remediation text and no summary.
C10_NoKeyNoWork ==
    env_key \in {<<>>, <<<<>>>>} =>
        /\ pc \in {"main", "exit"}
        /\ client = None
        /\ ~listing_fetched
        /\ \A n \in DrawNumbers :
              http_gets[n] = 0 /\ pdftoppm_runs[n] = 0 /\ api_calls[n] = 0 /\ writes[n] = 0
        /\ out_dir = out_dir0
        /\ pc = "exit" => "troubleshooting" \in console /\ "summary" \notin console

\* main ended on an empty OPENAI_API_KEY
C10_Witness ==
    /\ env_key = <<<<>>>>
    /\ pc = "exit"
    /\ "troubleshooting" \in console

\* ------------------------------------------------------------------ C11

\* the list the loop works through
WorkList == IF game = "mega" THEN pdfs ELSE image_files

\* main is inside the loop over the draws
InLoop == pc \in {"loop", "convert", "extract"}

\* C11: whatever happens while a draw is processed, the run stays in the
\* loop or leaves it past the last draw of the list with the summary
\* printed; it never ends between two draws.
C11_NeverAborts ==
    [][InLoop =>
          \/ pc' \in {"loop", "convert", "extract"}
          \/ /\ pc' = "exit"
             /\ "summary" \in console'
             /\ i' > Len(WorkList')]_vars

\* ------------------------------------------------------------------ C12

\* C12: a hosted-model call is issued only when the fixed delay ran after
\* the call before it (or there was none), whatever that call gave: a
\* usable reply, an unusable reply or an exception.
C12_DelayBetweenCalls ==
    [][api_calls' /= api_calls => slept_since_call]_vars

\* ------------------------------------------------------------------ C13

\* the format the prompt asks for: 'Date: DD/MM/YYYY', a line break, and
\* 'Numbers: ' with the values separated by a comma and a space
InPromptFormat(text, vals) ==
    /\ Len(text) > 17
    /\ text[17] = "\n"
    /\ DateLinesIn(SubSeq(text, 1, 16)) = {<<1, 7>>}
    /\ text[6] = " "
    /\ SubSeq(text, 18, Len(text)) = NumbersLine(vals, <<",", " ">>)

\* C13: a reply in the format the prompt asks for, with six distinct
\* in-range numbers on its Numbers line, parses to these six numbers in
\* ascending order; the Date line adds nothing.
C13_DateLineIgnored ==
    (BothParsed /\ Len(ocr_text) > 17 /\ ocr_text[17] = "\n") =>
        \A vals \in SixValues :
            (InPromptFormat(ocr_text, vals) /\ \A k \in 1..6 : InGameRange(game, vals[k]))
            => /\ Len(numbers) = 6
               /\ StrictlyAscending(numbers)
               /\ Range(numbers) = Range(vals)

\* ------------------------------------------------------------------ C14

\* the draws of the list that were attempted: all of them for Power, those
\* without a record at the start of the run for Mega
Attempted ==
    {k \in 1..Len(WorkList) :
        game = "power" \/ RecordFile("mega", pdfs[k].draw_number) \notin DOMAIN out_dir0}

\* C14: when the summary is printed, every attempted draw is counted in the
\* total and in one of saved and failed: the total is the number of
\* attempted draws and equals saved plus failed.
C14_TotalIsSavedPlusFailed ==
    "summary" \in console =>
        /\ total_draws = Cardinality(Attempted)
        /\ total_draws = saved_draws + failed_draws

=============================================================================
